---- MODULE Spec2Model ----
(***************************************************************************)
(* Model of Day1/duration_prediction/train.py: read_dataframe (the Loader) *)
(* and train (the Trainer).                                                *)
(*                                                                         *)
(* Times are whole seconds.  A duration in minutes is the exact rational   *)
(* [num, den] (total seconds over 60), so fractional minutes are kept.     *)
(* Text is a sequence of one-character strings, so that the conversion of  *)
(* a location identifier to text and the lexicographic order of feature    *)
(* names are computed rather than assumed.                                 *)
(***************************************************************************)
EXTENDS Integers, Sequences, FiniteSets, TLC

VARIABLES
    pc,          \* position of the running call
    train_date,  \* argument of train
    val_date,    \* argument of train
    df_train,    \* train.py:78
    df_val,      \* train.py:79
    train_dicts, \* train.py:85
    val_dicts,   \* train.py:86
    y_train,     \* train.py:88
    y_val,       \* train.py:89
    pipeline,    \* train.py:91-95, the (dv, lr) pair and whether it is fitted
    y_pred,      \* train.py:96
    mse,         \* train.py:98
    log,         \* what loguru has been handed, in order
    fetched,     \* the filenames pd.read_parquet was called with, in order
    file,        \* what is stored at out_path
    f_out,       \* the handle of train.py:102: "none", "open" or "closed"
    pre_file,    \* what was stored at out_path when train was called
    outcome,     \* how the call of train ended
    source,      \* the content behind train_url when it was first read
    calls        \* LoaderSpec: what the successive read_dataframe calls gave

vars == <<pc, train_date, val_date, df_train, df_val, train_dicts, val_dicts,
          y_train, y_val, pipeline, y_pred, mse, log, fetched, file, f_out,
          pre_file, outcome, source, calls>>

(***************************************************************************)
(* Bounds and input domains                                                *)
(***************************************************************************)
\* the longest table of a source
MaxRows == 2

LocationIDs == {2, 10}
Pickups == {100}
\* durations of 59 s, 60 s (1 min), 3600 s (60 min) and 3601 s
Dropoffs == {159, 160, 3700, 3701}
TripDistances == {3}
Dates == {[year |-> 2023, month |-> 1], [year |-> 2023, month |-> 2]}
TrainDates == {[year |-> 2023, month |-> 1]}
out_path == "model.bin"

AllColumns == {"lpep_pickup_datetime", "lpep_dropoff_datetime",
               "PULocationID", "DOLocationID", "trip_distance"}
ColumnSets == {AllColumns,
               AllColumns \ {"lpep_dropoff_datetime"},
               AllColumns \ {"PULocationID"},
               AllColumns \ {"trip_distance"}}

TripRecords == [lpep_pickup_datetime : Pickups,
                lpep_dropoff_datetime : Dropoffs,
                PULocationID : LocationIDs,
                DOLocationID : LocationIDs,
                trip_distance : TripDistances]

SeqsUpTo(S, n) == UNION {[1..k -> S] : k \in 0..n}

\* what a filename can hold: a file that cannot be fetched, one that is no
\* parquet file, or a table with some set of columns
FetchErrors == {"URLError", "ArrowInvalid"}
Sources(records) ==
    [error : FetchErrors, columns : {{}}, rows : {<<>>}]
    \cup [error : {"none"}, columns : ColumnSets, rows : SeqsUpTo(records, MaxRows)]

NoFrame == [columns |-> {}, rows |-> <<>>]

(***************************************************************************)
(* Text                                                                    *)
(***************************************************************************)
Digits == <<"0", "1", "2", "3", "4", "5", "6", "7", "8", "9">>

RECURSIVE astype_str(_)
\* str(n) for a non-negative integer, most significant digit first
astype_str(n) ==
    IF n < 10 THEN <<Digits[n + 1]>>
    ELSE Append(astype_str(n \div 10), Digits[(n % 10) + 1])

(***************************************************************************)
(* read_dataframe                                                          *)
(***************************************************************************)
Info(msg, arg) == [level |-> "INFO", msg |-> msg, arg |-> <<arg>>]
Error(msg, arg) == [level |-> "ERROR", msg |-> msg, arg |-> <<arg>>]

\* pd.read_parquet: the rows get the index 0, 1, 2, ... of a RangeIndex
read_parquet(content) ==
    [columns |-> content.columns,
     rows |-> [i \in 1..Len(content.rows) |->
                  [index |-> i - 1, rec |-> content.rows[i]]]]

\* .dt.total_seconds() // 60: whole minutes only
total_minutes_floored(delta) == [num |-> delta \div 60, den |-> 1]

\* .dt.total_seconds() / 60
total_minutes(delta) == [num |-> delta, den |-> 60]

\* lines 37-38
with_duration(row) ==
    [index |-> row.index,
     rec |-> row.rec,
     duration |-> total_minutes(row.rec.lpep_dropoff_datetime
                                - row.rec.lpep_pickup_datetime)]

\* (df.duration >= 1) & (df.duration <= 60)
duration_mask(row) ==
    /\ row.duration.num >= 1 * row.duration.den
    /\ row.duration.num <= 60 * row.duration.den

\* line 43
categorical_as_text(row) ==
    [index |-> row.index,
     rec |-> [row.rec EXCEPT !.PULocationID = astype_str(@),
                             !.DOLocationID = astype_str(@)],
     duration |-> row.duration]

\* an except clause that reads the file once more before it gives up
RaisedAfterRetry(filename, e) ==
    [raised |-> TRUE, error |-> e, df |-> NoFrame,
     log |-> <<Info("loading file", filename),
               Error("error reading", filename),
               Error("exception", e)>>,
     reads |-> <<filename, filename>>]

\* the two logger.error calls and the bare raise of lines 46-49
Raised(filename, e) ==
    [raised |-> TRUE, error |-> e, df |-> NoFrame,
     log |-> <<Info("loading file", filename),
               Error("error reading", filename),
               Error("exception", e)>>,
     reads |-> <<filename>>]

\* a reader that keeps the rows of the earlier calls of the process
read_dataframe_stale(filename, content) ==
    IF content.error # "none" THEN Raised(filename, content.error)
    ELSE LET cleaned == SelectSeq([i \in 1..Len(read_parquet(content).rows) |->
                                      with_duration(read_parquet(content).rows[i])],
                                  duration_mask)
             kept == IF Len(fetched) > 0 /\ Len(cleaned) > 0
                     THEN Tail(cleaned) ELSE cleaned
         IN [raised |-> FALSE, error |-> "none",
             df |-> [columns |-> content.columns \cup {"duration"},
                     rows |-> [i \in 1..Len(kept) |-> categorical_as_text(kept[i])]],
             log |-> <<Info("loading file", filename), Info("rows", <<filename, Len(kept)>>)>>,
             reads |-> <<filename>>]

\* read_dataframe(filename) when filename holds content
read_dataframe(filename, content) ==
    IF content.error # "none"
    THEN Raised(filename, content.error)                           \* line 35
    ELSE LET df == read_parquet(content)
         IN IF ~ {"lpep_dropoff_datetime", "lpep_pickup_datetime"} \subseteq df.columns
            THEN Raised(filename, "AttributeError")                \* line 37
            ELSE LET timed == [i \in 1..Len(df.rows) |-> with_duration(df.rows[i])]
                     cleaned == SelectSeq(timed, duration_mask)    \* line 40
                 IN IF ~ {"PULocationID", "DOLocationID"} \subseteq df.columns
                    THEN Raised(filename, "KeyError")              \* line 43
                    ELSE [raised |-> FALSE, error |-> "none",
                          df |-> [columns |-> df.columns \cup {"duration"},
                                  rows |-> [i \in 1..Len(cleaned) |->
                                               categorical_as_text(cleaned[i])]],
                          log |-> <<Info("loading file", filename),
                                    Info("rows", <<filename, Len(cleaned)>>)>>,
                          reads |-> <<filename>>]

(***************************************************************************)
(* train: the pieces of lines 74-105                                       *)
(***************************************************************************)
RECURSIVE Concat(_)
Concat(chars) == IF chars = <<>> THEN "" ELSE Head(chars) \o Concat(Tail(chars))

\* {month:02d}
two_digits(n) == IF n < 10 THEN <<"0">> \o astype_str(n) ELSE astype_str(n)

\* lines 74-76
format_url(d) ==
    "https://d37ci6vzurychx.cloudfront.net/trip-data/green_tripdata_"
        \o Concat(astype_str(d.year)) \o "-" \o Concat(two_digits(d.month))
        \o ".parquet"

train_url == format_url(train_date)
val_url == format_url(val_date)

\* df[categorical + numerical].to_dict(orient='records'), lines 85-86
to_dict(df) ==
    [i \in 1..Len(df.rows) |->
        [PULocationID |-> df.rows[i].rec.PULocationID,
         DOLocationID |-> df.rows[i].rec.DOLocationID,
         trip_distance |-> df.rows[i].rec.trip_distance]]

\* df[target].values, lines 88-89
target_values(df) == [i \in 1..Len(df.rows) |-> df.rows[i].duration]

(***************************************************************************)
(* DictVectorizer.  A feature is named "field=value" for a text value and  *)
(* "field" for a number; here it is the pair [field, value], with the      *)
(* empty text as the value of a numeric field.                             *)
(***************************************************************************)
CategoricalFields == {"PULocationID", "DOLocationID"}
NumericalFields == {"trip_distance"}

FeatureNamesOf(d) ==
    {[field |-> f, value |-> d[f]] : f \in CategoricalFields}
    \cup {[field |-> f, value |-> <<>>] : f \in NumericalFields}

\* the order of the first characters 'D' < 'P' < 't'
FieldRank(f) ==
    CASE f = "DOLocationID" -> 1
      [] f = "PULocationID" -> 2
      [] f = "trip_distance" -> 3

DigitRank(c) == CHOOSE k \in 1..10 : Digits[k] = c

RECURSIVE TextLess(_, _)
\* the order of Python strings
TextLess(a, b) ==
    IF b = <<>> THEN FALSE
    ELSE IF a = <<>> THEN TRUE
    ELSE IF Head(a) # Head(b) THEN DigitRank(Head(a)) < DigitRank(Head(b))
    ELSE TextLess(Tail(a), Tail(b))

NameLess(a, b) ==
    \/ FieldRank(a.field) < FieldRank(b.field)
    \/ a.field = b.field /\ TextLess(a.value, b.value)

RECURSIVE Sorted(_)
\* sorted(feature_names)
Sorted(S) ==
    IF S = {} THEN <<>>
    ELSE LET m == CHOOSE x \in S : \A y \in S \ {x} : NameLess(x, y)
         IN <<m>> \o Sorted(S \ {m})

\* DictVectorizer.fit: the vocabulary of the dictionaries it is given
dv_fit(dicts) ==
    [feature_names_ |-> Sorted(UNION {FeatureNamesOf(dicts[i]) : i \in 1..Len(dicts)})]

\* the entry of one dictionary in the column of one feature
feature_value(d, name) ==
    IF name.field \in NumericalFields THEN d[name.field]
    ELSE IF d[name.field] = name.value THEN 1 ELSE 0

\* a transform that fits again on what it is given
dv_transform_refit(dv, dicts) ==
    [i \in 1..Len(dicts) |->
        [j \in 1..Len(dv_fit(dicts).feature_names_) |->
            feature_value(dicts[i], dv_fit(dicts).feature_names_[j])]]

\* DictVectorizer.transform with the fitted vocabulary
dv_transform(dv, dicts) ==
    [i \in 1..Len(dicts) |->
        [j \in 1..Len(dv.feature_names_) |->
            feature_value(dicts[i], dv.feature_names_[j])]]

(***************************************************************************)
(* LinearRegression.  The least-squares solution is not computed: fit      *)
(* yields one of a few coefficient vectors (whole minutes).                *)
(***************************************************************************)
Fits == {[intercept |-> 0, weight |-> 0], [intercept |-> 30, weight |-> 1]}

RECURSIVE Sum(_)
Sum(s) == IF s = <<>> THEN 0 ELSE Head(s) + Sum(Tail(s))

\* LinearRegression.predict: intercept_ + X . coef_, in minutes
lr_predict(lr, X) ==
    [i \in 1..Len(X) |->
        lr.intercept_
        + Sum([j \in 1..Len(X[i]) |->
                  IF j <= Len(lr.coef_) THEN lr.coef_[j] * X[i][j] ELSE 0])]

RECURSIVE SqrtBetween(_, _, _)
\* the largest r in lo..hi with r * r <= n
SqrtBetween(n, lo, hi) ==
    IF lo >= hi THEN lo
    ELSE LET mid == (lo + hi + 1) \div 2
         IN IF mid * mid <= n THEN SqrtBetween(n, mid, hi)
            ELSE SqrtBetween(n, lo, mid - 1)

ISqrt(n) == SqrtBetween(n, 0, 46340)

\* the squared errors, in seconds squared
SquaredErrors(y_true, predicted) ==
    [i \in 1..Len(y_true) |->
        (predicted[i] * 60 - (y_true[i].num * 60) \div y_true[i].den)
        * (predicted[i] * 60 - (y_true[i].num * 60) \div y_true[i].den)]

\* mean_squared_error(..., squared=True): no square root is taken
mean_squared_error_plain(y_true, predicted) ==
    [num |-> Sum(SquaredErrors(y_true, predicted)) \div Len(y_true), den |-> 3600]

\* mean_squared_error(y_true, y_pred, squared=False), rounded down to a second
mean_squared_error(y_true, predicted) ==
    [num |-> ISqrt(Sum(SquaredErrors(y_true, predicted)) \div Len(y_true)),
     den |-> 60]

(***************************************************************************)
(* pickle.dump writes the pipeline as a run of chunks                      *)
(***************************************************************************)
Serialized(p) ==
    <<[tag |-> "dv", body |-> p.dv.feature_names_],
      [tag |-> "lr", body |-> <<p.lr.intercept_>> \o p.lr.coef_],
      [tag |-> "STOP", body |-> <<>>]>>

Absent == [exists |-> FALSE, data |-> <<>>]
OldFile == [exists |-> TRUE, data |-> <<[tag |-> "old", body |-> <<>>]>>]

Unfitted == [fitted |-> FALSE,
             dv |-> [feature_names_ |-> <<>>],
             lr |-> [intercept_ |-> 0, coef_ |-> <<>>]]

Running == [kind |-> "running", error |-> "none", line |-> 0, value |-> <<>>]
RaisedAt(line, e) == [kind |-> "raised", error |-> e, line |-> line, value |-> <<>>]
Returned(v) == [kind |-> "returned", error |-> "none", line |-> 105, value |-> <<v>>]

(***************************************************************************)
(* The run of train(train_date, val_date, out_path)                        *)
(***************************************************************************)
\* the records of the tables a run of train is given: a duration of 60 min or
\* of 60 min 1 s, between two different locations
TrainRecords ==
    {r \in TripRecords : /\ r.lpep_dropoff_datetime \in {3700, 3701}
                         /\ r.PULocationID # r.DOLocationID}

NoSource == [error |-> "none", columns |-> {}, rows |-> <<>>]

Init ==
    /\ pc = "train_78"
    /\ train_date \in TrainDates
    /\ val_date \in Dates
    /\ pre_file \in {Absent, OldFile}
    /\ file = pre_file
    /\ f_out = "none"
    /\ df_train = NoFrame
    /\ df_val = NoFrame
    /\ train_dicts = <<>>
    /\ val_dicts = <<>>
    /\ y_train = <<>>
    /\ y_val = <<>>
    /\ pipeline = Unfitted
    /\ y_pred = <<>>
    /\ mse = <<>>
    /\ log = <<>>
    /\ fetched = <<>>
    /\ outcome = Running
    /\ source = NoSource
    /\ calls = <<>>

\* line 78 with an except clause that goes on without the table
LoadTrainSwallowing ==
    /\ pc = "train_78"
    /\ \E content \in Sources(TrainRecords) :
          LET r == read_dataframe(train_url, content)
          IN /\ source' = content
             /\ log' = log \o r.log
             /\ fetched' = fetched \o r.reads
             /\ df_train' = r.df
             /\ pc' = "train_79"
             /\ outcome' = outcome
    /\ UNCHANGED <<train_date, val_date, df_val, train_dicts, val_dicts, y_train,
                   y_val, pipeline, y_pred, mse, file, f_out, pre_file, calls>>

\* line 78: df_train = read_dataframe(train_url)
LoadTrain ==
    /\ pc = "train_78"
    /\ \E content \in Sources(TrainRecords) :
          LET r == read_dataframe(train_url, content)
          IN /\ source' = content
             /\ log' = log \o r.log
             /\ fetched' = fetched \o r.reads
             /\ IF r.raised
                THEN /\ pc' = "raised"
                     /\ outcome' = RaisedAt(78, r.error)
                     /\ df_train' = df_train
                ELSE /\ pc' = "train_79"
                     /\ outcome' = outcome
                     /\ df_train' = r.df
    /\ UNCHANGED <<train_date, val_date, df_val, train_dicts, val_dicts, y_train,
                   y_val, pipeline, y_pred, mse, file, f_out, pre_file, calls>>

\* line 79: df_val = read_dataframe(val_url)
LoadVal ==
    /\ pc = "train_79"
    /\ \E content \in Sources(TrainRecords) :
          LET r == read_dataframe(val_url, content)
          IN /\ log' = log \o r.log
             /\ fetched' = fetched \o r.reads
             /\ IF r.raised
                THEN /\ pc' = "raised"
                     /\ outcome' = RaisedAt(79, r.error)
                     /\ df_val' = df_val
                ELSE /\ pc' = "train_85"
                     /\ outcome' = outcome
                     /\ df_val' = r.df
    /\ UNCHANGED <<train_date, val_date, df_train, train_dicts, val_dicts, y_train,
                   y_val, pipeline, y_pred, mse, file, f_out, pre_file, source, calls>>

\* lines 85-89 in a version that creates the output file first
ExtractAfterOpen ==
    /\ pc = "train_85"
    /\ file' = [exists |-> TRUE, data |-> <<>>]
    /\ IF "trip_distance" \notin df_train.columns
       THEN /\ pc' = "raised"
            /\ outcome' = RaisedAt(85, "KeyError")
            /\ UNCHANGED <<train_dicts, val_dicts, y_train, y_val>>
       ELSE IF "trip_distance" \notin df_val.columns
       THEN /\ pc' = "raised"
            /\ outcome' = RaisedAt(86, "KeyError")
            /\ UNCHANGED <<train_dicts, val_dicts, y_train, y_val>>
       ELSE /\ train_dicts' = to_dict(df_train)
            /\ val_dicts' = to_dict(df_val)
            /\ y_train' = target_values(df_train)
            /\ y_val' = target_values(df_val)
            /\ pc' = "train_95"
            /\ outcome' = outcome
    /\ UNCHANGED <<train_date, val_date, df_train, df_val, pipeline, y_pred, mse,
                   log, fetched, f_out, pre_file, source, calls>>

\* lines 81-93: the feature dictionaries, the targets and the unfitted pipeline
Extract ==
    /\ pc = "train_85"
    /\ IF "trip_distance" \notin df_train.columns
       THEN /\ pc' = "raised"
            /\ outcome' = RaisedAt(85, "KeyError")
            /\ UNCHANGED <<train_dicts, val_dicts, y_train, y_val>>
       ELSE IF "trip_distance" \notin df_val.columns
       THEN /\ pc' = "raised"
            /\ outcome' = RaisedAt(86, "KeyError")
            /\ UNCHANGED <<train_dicts, val_dicts, y_train, y_val>>
       ELSE /\ train_dicts' = to_dict(df_train)
            /\ val_dicts' = to_dict(df_val)
            /\ y_train' = target_values(df_train)
            /\ y_val' = target_values(df_val)
            /\ pc' = "train_95"
            /\ outcome' = outcome
    /\ UNCHANGED <<train_date, val_date, df_train, df_val, pipeline, y_pred, mse,
                   log, fetched, file, f_out, pre_file, source, calls>>

\* line 95 when fitting nothing is taken for a fit
FitAcceptingEmpty ==
    /\ pc = "train_95"
    /\ \E fit \in Fits :
          pipeline' = [fitted |-> TRUE,
                       dv |-> dv_fit(train_dicts),
                       lr |-> [intercept_ |-> fit.intercept,
                               coef_ |-> [j \in 1..Len(dv_fit(train_dicts).feature_names_)
                                             |-> fit.weight]]]
    /\ pc' = "train_96"
    /\ UNCHANGED <<train_date, val_date, df_train, df_val, train_dicts, val_dicts,
                   y_train, y_val, y_pred, mse, log, fetched, file, f_out, pre_file,
                   outcome, source, calls>>

\* line 95: pipeline.fit(train_dicts, y_train); DictVectorizer refuses an
\* empty sample sequence with a ValueError
Fit ==
    /\ pc = "train_95"
    /\ IF train_dicts = <<>>
       THEN /\ pc' = "raised"
            /\ outcome' = RaisedAt(95, "ValueError")
            /\ pipeline' = pipeline
       ELSE /\ \E fit \in Fits :
                  pipeline' = [fitted |-> TRUE,
                               dv |-> dv_fit(train_dicts),
                               lr |-> [intercept_ |-> fit.intercept,
                                       coef_ |-> [j \in 1..Len(dv_fit(train_dicts).feature_names_)
                                                     |-> fit.weight]]]
            /\ pc' = "train_96"
            /\ outcome' = outcome
    /\ UNCHANGED <<train_date, val_date, df_train, df_val, train_dicts, val_dicts,
                   y_train, y_val, y_pred, mse, log, fetched, file, f_out, pre_file,
                   source, calls>>

\* line 96: y_pred = pipeline.predict(val_dicts)
Predict ==
    /\ pc = "train_96"
    /\ IF val_dicts = <<>>
       THEN /\ pc' = "raised"
            /\ outcome' = RaisedAt(96, "ValueError")
            /\ y_pred' = y_pred
       ELSE /\ y_pred' = lr_predict(pipeline.lr, dv_transform(pipeline.dv, val_dicts))
            /\ pc' = "train_98"
            /\ outcome' = outcome
    /\ UNCHANGED <<train_date, val_date, df_train, df_val, train_dicts, val_dicts,
                   y_train, y_val, pipeline, mse, log, fetched, file, f_out, pre_file,
                   source, calls>>

\* line 98 without line 99
ScoreUnlogged ==
    /\ pc = "train_98"
    /\ mse' = <<mean_squared_error(y_val, y_pred)>>
    /\ pc' = "train_101"
    /\ UNCHANGED <<train_date, val_date, df_train, df_val, train_dicts, val_dicts,
                   y_train, y_val, pipeline, y_pred, log, fetched, file, f_out,
                   pre_file, outcome, source, calls>>

\* lines 98-99: the score and its log entry
Score ==
    /\ pc = "train_98"
    /\ mse' = <<mean_squared_error(y_val, y_pred)>>
    /\ log' = Append(log, Info("mse", mse'[1]))
    /\ pc' = "train_101"
    /\ UNCHANGED <<train_date, val_date, df_train, df_val, train_dicts, val_dicts,
                   y_train, y_val, pipeline, y_pred, fetched, file, f_out, pre_file,
                   outcome, source, calls>>

\* line 98 under a scikit-learn whose mean_squared_error has no `squared`
\* parameter any more: the call raises a TypeError
ScoreRaises ==
    /\ pc = "train_98"
    /\ pc' = "raised"
    /\ outcome' = RaisedAt(98, "TypeError")
    /\ UNCHANGED <<train_date, val_date, df_train, df_val, train_dicts, val_dicts,
                   y_train, y_val, pipeline, y_pred, mse, log, fetched, file, f_out,
                   pre_file, source, calls>>

\* line 101
LogWriting ==
    /\ pc = "train_101"
    /\ log' = Append(log, Info("writing model into", out_path))
    /\ pc' = "train_102"
    /\ UNCHANGED <<train_date, val_date, df_train, df_val, train_dicts, val_dicts,
                   y_train, y_val, pipeline, y_pred, mse, fetched, file, f_out,
                   pre_file, outcome, source, calls>>

\* line 102: open(out_path, 'wb') creates the file or empties the one there
Open ==
    /\ pc = "train_102"
    /\ file' = [exists |-> TRUE, data |-> <<>>]
    /\ f_out' = "open"
    /\ pc' = "train_103"
    /\ UNCHANGED <<train_date, val_date, df_train, df_val, train_dicts, val_dicts,
                   y_train, y_val, pipeline, y_pred, mse, log, fetched, pre_file,
                   outcome, source, calls>>

\* line 102 when out_path cannot be opened for writing
OpenRaises ==
    /\ pc = "train_102"
    /\ pc' = "raised"
    /\ outcome' = RaisedAt(102, "OSError")
    /\ UNCHANGED <<train_date, val_date, df_train, df_val, train_dicts, val_dicts,
                   y_train, y_val, pipeline, y_pred, mse, log, fetched, file, f_out,
                   pre_file, source, calls>>

\* line 103: pickle.dump writes the next chunk
Dump ==
    /\ pc = "train_103"
    /\ Len(file.data) < Len(Serialized(pipeline))
    /\ file' = [file EXCEPT !.data = Append(@, Serialized(pipeline)[Len(@) + 1])]
    /\ pc' = IF Len(file'.data) = Len(Serialized(pipeline)) THEN "train_exit"
             ELSE "train_103"
    /\ UNCHANGED <<train_date, val_date, df_train, df_val, train_dicts, val_dicts,
                   y_train, y_val, pipeline, y_pred, mse, log, fetched, f_out,
                   pre_file, outcome, source, calls>>

\* line 103 when a write fails: the with statement closes the file and the
\* error goes on to the caller
DumpRaises ==
    /\ pc = "train_103"
    /\ f_out' = "closed"
    /\ pc' = "raised"
    /\ outcome' = RaisedAt(103, "OSError")
    /\ UNCHANGED <<train_date, val_date, df_train, df_val, train_dicts, val_dicts,
                   y_train, y_val, pipeline, y_pred, mse, log, fetched, file,
                   pre_file, source, calls>>

\* the end of the with block of lines 102-103
Close ==
    /\ pc = "train_exit"
    /\ f_out' = "closed"
    /\ pc' = "train_105"
    /\ UNCHANGED <<train_date, val_date, df_train, df_val, train_dicts, val_dicts,
                   y_train, y_val, pipeline, y_pred, mse, log, fetched, file,
                   pre_file, outcome, source, calls>>

\* line 105: return mse
Return ==
    /\ pc = "train_105"
    /\ outcome' = Returned(mse[1])
    /\ pc' = "returned"
    /\ UNCHANGED <<train_date, val_date, df_train, df_val, train_dicts, val_dicts,
                   y_train, y_val, pipeline, y_pred, mse, log, fetched, file, f_out,
                   pre_file, source, calls>>

Next ==
    \/ LoadTrain
    \/ LoadVal
    \/ Extract
    \/ Fit
    \/ Predict
    \/ Score
    \/ ScoreRaises
    \/ LogWriting
    \/ Open
    \/ OpenRaises
    \/ Dump
    \/ DumpRaises
    \/ Close
    \/ Return

Spec == Init /\ [][Next]_vars

(***************************************************************************)
(* Two calls of read_dataframe on one filename whose content stays as it   *)
(* is                                                                      *)
(***************************************************************************)
InitLoader ==
    /\ pc = "client"
    /\ train_date \in Dates
    /\ val_date = train_date
    /\ source \in Sources(TripRecords)
    /\ calls = <<>>
    /\ log = <<>>
    /\ fetched = <<>>
    /\ pre_file = Absent
    /\ file = Absent
    /\ f_out = "none"
    /\ df_train = NoFrame
    /\ df_val = NoFrame
    /\ train_dicts = <<>>
    /\ val_dicts = <<>>
    /\ y_train = <<>>
    /\ y_val = <<>>
    /\ pipeline = Unfitted
    /\ y_pred = <<>>
    /\ mse = <<>>
    /\ outcome = Running

\* read_dataframe(train_url), called by a client other than train
CallLoader ==
    /\ pc = "client"
    /\ Len(calls) < 2
    /\ LET r == read_dataframe(train_url, source)
       IN /\ calls' = Append(calls, [raised |-> r.raised, error |-> r.error, df |-> r.df])
          /\ log' = log \o r.log
          /\ fetched' = fetched \o r.reads
    /\ UNCHANGED <<pc, train_date, val_date, df_train, df_val, train_dicts,
                   val_dicts, y_train, y_val, pipeline, y_pred, mse, file, f_out,
                   pre_file, outcome, source>>

NextLoader == CallLoader

LoaderSpec == InitLoader /\ [][NextLoader]_vars

(***************************************************************************)
(* Properties                                                              *)
(***************************************************************************)
Delta(rec) == rec.lpep_dropoff_datetime - rec.lpep_pickup_datetime

\* C1: a row of the source is in the table read_dataframe returns exactly
\* when its duration is between 1 and 60 minutes, both included, the
\* duration being the seconds over 60 with the fraction kept; the rows that
\* stay are the source's rows, each once, in the source's order.
C1_FilterKeepsExactlyInRange ==
    \A k \in 1..Len(calls) :
        ~ calls[k].raised =>
            LET out == calls[k].df.rows
                in == source.rows
            IN /\ \A i \in 1..Len(in) :
                     (\E j \in 1..Len(out) : out[j].index = i - 1)
                         <=> (60 <= Delta(in[i]) /\ Delta(in[i]) <= 3600)
               /\ \A j \in 1..Len(out) :
                     /\ out[j].index \in 0..(Len(in) - 1)
                     /\ Delta(out[j].rec) = Delta(in[out[j].index + 1])
                     /\ out[j].rec.trip_distance = in[out[j].index + 1].trip_distance
                     /\ out[j].duration.num * 60 = Delta(out[j].rec) * out[j].duration.den
               /\ \A j1, j2 \in 1..Len(out) :
                     j1 < j2 => out[j1].index < out[j2].index

C1_Witness ==
    /\ Len(calls) > 0
    /\ ~ calls[1].raised
    /\ Len(source.rows) = 2
    /\ Delta(source.rows[1]) = 3601
    /\ Delta(source.rows[2]) = 3600
    /\ Len(calls[1].df.rows) = 1

\* C2: when a step of train before the serialization raises, the error
\* reaches the caller and out_path holds what it held before the call: the
\* file was neither created nor opened nor changed.
C2_FailureBeforeWriteLeavesPath ==
    /\ (outcome.kind = "raised" /\ outcome.line < 102) =>
          /\ pc = "raised"
          /\ outcome.error # "none"
          /\ file = pre_file
          /\ f_out = "none"
    /\ f_out = "none" => file = pre_file

C2_Witness ==
    /\ outcome.kind = "raised"
    /\ outcome.line = 96
    /\ pre_file = OldFile
    /\ file = OldFile

\* C3: at every moment of a run, out_path holds what it held before the
\* call or the complete serialized pipeline, never an empty or partly written
\* file.
C3_NoPartialWriteExposed ==
    \/ file = pre_file
    \/ /\ file.exists
       /\ Len(file.data) = 3
       /\ file.data[1].tag = "dv"
       /\ file.data[2].tag = "lr"
       /\ file.data[3].tag = "STOP"

\* the mean of the squared differences of y_pred and y_val, in seconds squared
C4_MeanSquare ==
    Sum([i \in 1..Len(y_val) |->
            (60 * y_pred[i] - Delta(df_val.rows[i].rec))
            * (60 * y_pred[i] - Delta(df_val.rows[i].rec))]) \div Len(y_val)

LoaderErrors == {"URLError", "ArrowInvalid", "AttributeError", "KeyError"}

\* C5: a source that cannot be read or processed makes read_dataframe log the
\* failure and raise the error it got, after reading the source once and
\* without handing back a table; train does not catch it, so the run ends
\* with that error at the Loader call.
C5_LoaderFailureAbortsRun ==
    /\ (outcome.kind = "raised" /\ outcome.line \in {78, 79}) =>
          /\ pc = "raised"
          /\ outcome.error \in LoaderErrors
          /\ Len(fetched) = (IF outcome.line = 78 THEN 1 ELSE 2)
          /\ fetched[Len(fetched)] = (IF outcome.line = 78 THEN train_url ELSE val_url)
          /\ (IF outcome.line = 78 THEN df_train ELSE df_val) = NoFrame
          /\ Len(log) >= 3
          /\ log[Len(log) - 2].msg = "loading file"
          /\ log[Len(log) - 1].level = "ERROR"
          /\ log[Len(log) - 1].msg = "error reading"
          /\ log[Len(log)].level = "ERROR"
          /\ log[Len(log)].msg = "exception"
          /\ log[Len(log)].arg = <<outcome.error>>
          /\ train_dicts = <<>>
          /\ ~ pipeline.fitted
    /\ (Len(log) > 0 /\ log[Len(log)].level = "ERROR") =>
          (pc = "raised" /\ outcome.line \in {78, 79})

C5_Witness ==
    /\ pc = "raised"
    /\ outcome.line = 79
    /\ outcome.error = "ArrowInvalid"
    /\ Len(fetched) = 2
    /\ df_train # NoFrame

\* C6: when no row of the training source has a duration between 1 and 60
\* minutes, train does not return: the fit on no samples raises, no RMSE is
\* computed and out_path is left alone.
C6_EmptyTrainingTableFails ==
    (/\ Len(fetched) >= 1
     /\ \A i \in 1..Len(source.rows) :
           ~ (60 <= Delta(source.rows[i]) /\ Delta(source.rows[i]) <= 3600)) =>
        /\ pc \in {"train_79", "train_85", "train_95", "raised"}
        /\ outcome.kind # "returned"
        /\ df_train.rows = <<>>
        /\ ~ pipeline.fitted
        /\ mse = <<>>
        /\ f_out = "none"
        /\ file = pre_file
        /\ (pc = "raised" =>
               /\ outcome.error # "none"
               /\ outcome.line \in {78, 79, 85, 86, 95})
        /\ (pc = "raised" /\ outcome.line = 95) => outcome.error = "ValueError"

C6_Witness ==
    /\ Len(source.rows) = 2
    /\ Delta(source.rows[1]) = 3601
    /\ Delta(source.rows[2]) = 3601
    /\ df_train # NoFrame
    /\ df_train.rows = <<>>
    /\ df_val.rows # <<>>
    /\ pc = "raised"
    /\ outcome.line = 95
    /\ outcome.error = "ValueError"

SeenInTraining(f) == {train_dicts[k][f] : k \in 1..Len(train_dicts)}

\* C7: the fitted vocabulary has one dimension for each distinct
\* (field, value) pair of PULocationID and DOLocationID in the training
\* dictionaries and one for trip_distance; predicting on the validation
\* dictionaries leaves it as it is, and an identifier value of a validation
\* row that training never saw adds nothing to the prediction (every
\* coefficient of a fit of this model is the same weight).
C7_VocabularyFromTrainingOnly ==
    /\ pipeline.fitted =>
          LET names == pipeline.dv.feature_names_
              named == {names[j] : j \in 1..Len(names)}
          IN /\ named = {[field |-> "PULocationID", value |-> v] :
                            v \in SeenInTraining("PULocationID")}
                        \cup {[field |-> "DOLocationID", value |-> v] :
                            v \in SeenInTraining("DOLocationID")}
                        \cup {[field |-> "trip_distance", value |-> <<>>]}
             /\ Len(names) = Cardinality(named)
             /\ Len(pipeline.lr.coef_) = Len(names)
    /\ y_pred # <<>> =>
          /\ Len(y_pred) = Len(val_dicts)
          /\ \A i \in 1..Len(val_dicts) :
                y_pred[i] = pipeline.lr.intercept_
                    + pipeline.lr.coef_[1]
                      * ((IF val_dicts[i].PULocationID \in SeenInTraining("PULocationID")
                          THEN 1 ELSE 0)
                         + (IF val_dicts[i].DOLocationID \in SeenInTraining("DOLocationID")
                            THEN 1 ELSE 0)
                         + val_dicts[i].trip_distance)

C7_Witness ==
    /\ pc = "train_98"
    /\ pipeline.lr.coef_[1] = 1
    /\ \E i \in 1..Len(val_dicts) :
          /\ val_dicts[i].PULocationID \notin SeenInTraining("PULocationID")
          /\ val_dicts[i].DOLocationID \notin SeenInTraining("DOLocationID")
          /\ y_pred[i] = pipeline.lr.intercept_ + val_dicts[i].trip_distance

HasLogged(msg) == \E k \in 1..Len(log) : log[k].msg = msg

\* C9 as stated: the error and the output path are logged only after the
\* artifact has been written.
C9_LoggedOnlyAfterWrite ==
    (HasLogged("mse") \/ HasLogged("writing model into")) =>
        (file.exists /\ Len(file.data) = 3 /\ file.data[3].tag = "STOP")

\* C9 amended: the error and then the output path are logged before
\* out_path is opened; the pipeline is written after the two entries, the
\* error value is returned after the write, and nothing is logged after it.
C9_LoggedBeforeWrite ==
    /\ (f_out # "none" \/ pc = "returned") =>
          /\ Len(log) >= 2
          /\ log[Len(log) - 1].msg = "mse"
          /\ log[Len(log) - 1].arg = mse
          /\ log[Len(log)].msg = "writing model into"
          /\ log[Len(log)].arg = <<out_path>>
    /\ pc = "returned" =>
          /\ f_out = "closed"
          /\ Len(file.data) = 3
          /\ file.data[3].tag = "STOP"
          /\ outcome.value = mse

C9_Witness ==
    /\ pc = "returned"
    /\ log[Len(log)].msg = "writing model into"
    /\ file.data[3].tag = "STOP"

\* C10: a run reads at most two sources, the training one and then the
\* validation one; the validation source is not read once the training
\* source has failed, and nothing later than the two Loader calls happens
\* before both have returned a table.
C10_LoadersFirstInOrder ==
    /\ Len(fetched) <= 2
    /\ \A k \in 1..Len(fetched) : fetched[k] = <<train_url, val_url>>[k]
    /\ Len(fetched) = 2 => df_train # NoFrame
    /\ (outcome.kind = "raised" /\ outcome.line = 78) => fetched = <<train_url>>
    /\ (\/ pc \notin {"train_78", "train_79", "raised"}
        \/ (pc = "raised" /\ outcome.line > 79)
        \/ train_dicts # <<>> \/ val_dicts # <<>> \/ pipeline.fitted
        \/ y_pred # <<>> \/ mse # <<>> \/ f_out # "none" \/ file # pre_file)
          => (df_train # NoFrame /\ df_val # NoFrame /\ Len(fetched) = 2)

C10_Witness ==
    /\ pc = "raised"
    /\ outcome.line = 78
    /\ train_url # val_url
    /\ fetched = <<train_url>>
    /\ df_val = NoFrame

====
